---- MODULE Spec2Model ----
(***************************************************************************)
(* Model of the image-manager server handlers (appdotbuilder/image-manager) *)
(* over its two tables, images and processed_images, and the uploads       *)
(* directory.                                                               *)
(*                                                                          *)
(* SpecUpdate and SpecStore run every handler as one step (one request at   *)
(* a time): SpecUpdate sends status updates with every combination of       *)
(* optional fields to rows of one kind of image, SpecStore sends            *)
(* status-only updates and adds deleteImage, getGallery and downloads of    *)
(* processed results.  SpecConc splits processImage and deleteImage into    *)
(* their separate store statements                                          *)
(* so that requests interleave.  SpecQuery and SpecGallery run getImages    *)
(* and getGallery over images with pending and completed rows.  SpecFiles   *)
(* runs uploads of several payloads and filenames with downloadImage,       *)
(* getImageById and the processing backend's writes.  SpecDownload splits   *)
(* downloadImage by processed id into its two selects, next to deleteImage, *)
(* and SpecRace splits updateProcessingStatus of two callers into the       *)
(* building of its values, its UPDATE statement and its response.           *)
(***************************************************************************)
EXTENDS Integers, Sequences, FiniteSets, TLC

VARIABLES images, processed, imageSeq, processedSeq, files, now, last,
          ops, procPending, delPending, dlPending, updPending

vars == <<images, processed, imageSeq, processedSeq, files, now, last,
          ops, procPending, delPending, dlPending, updPending>>

(* ------------------------------ bounds --------------------------------- *)

\* number of ids the images_id_seq sequence hands out
MaxImages == 2
\* number of ids the processed_images_id_seq sequence hands out
MaxProcessed == 3
\* last value of the clock
MaxTime == 1
\* number of successful store-changing requests in a run of SpecUpdate
MaxOps == 4
\* the same for SpecStore
MaxStoreOps == 4
\* number of requests started in a run of SpecConc
MaxConcOps == 4
\* number of successful store-changing requests in a run of SpecQuery
MaxQueryOps == 4
\* the same for SpecGallery
MaxGalleryOps == 7
\* the same for SpecFiles
MaxFileOps == 4

\* writes in a run of SpecDownload
MaxDownloadOps == 4

\* downloads that wait between their two selects
MaxDownloads == 1

\* requests in a run of SpecRace
MaxRaceOps == 4
\* largest limit and largest offset a getImages request carries
MaxLimit == 2
MaxOffset == 1

(* ------------------------------ values --------------------------------- *)

\* SQL NULL in an integer or timestamp column
Null == -1
\* SQL NULL / JS null in a text column
NullS == "NULL"

Statuses == {"pending", "processing", "completed", "failed"}

ProcessingTypes == {"background_removal", "resize"}

\* optional keys of UpdateProcessingStatusInput
OptionalFields == {"processed_path", "file_size", "width", "height", "error_message"}

\* the sets of optional keys a caller sends: none, any single one, or the
\* four result fields together
PresentSets ==
  {{}} \cup { {f} : f \in OptionalFields }
       \cup {{"processed_path", "file_size", "width", "height"}}

\* A JS object whose optional keys may be missing: a function whose domain
\* holds the required keys and some of the optional ones.
UpdateInputs ==
  UNION { { [k \in {"processed_image_id", "status"} \cup S |->
               CASE k = "processed_image_id" -> id
                 [] k = "status"             -> st
                 [] k = "processed_path"     -> "/processed/a.png"
                 [] k = "file_size"          -> 512
                 [] k = "width"              -> 400
                 [] k = "height"             -> 300
                 [] k = "error_message"      -> em ] :
              id \in 1..(MaxProcessed + 1), st \in Statuses, em \in {NullS, "X"} } :
          S \in PresentSets }

\* update inputs that carry the status only
StatusInputs ==
  { in \in UpdateInputs : DOMAIN in = {"processed_image_id", "status"} }

ProcessInputs ==
  [image_id : 1..(MaxImages + 1), processing_type : ProcessingTypes]

\* process inputs that leave processing_type to its default
DefaultTypeInputs ==
  { in \in ProcessInputs : in.processing_type = "background_removal" }

\* GetImagesInput after the schema's defaults: processing_status is optional
GetImagesInputs ==
  [include_processed : BOOLEAN, limit : 1..MaxLimit, offset : 0..MaxOffset]
    \cup [include_processed : BOOLEAN, limit : 1..MaxLimit, offset : 0..MaxOffset,
          processing_status : {"pending", "completed"}]

\* filenames are sequences of characters; file_data is a sequence of base64
\* symbols: 0..63 a digit of the alphabet, 64 the padding '=', 65 any other
\* character
UploadInputs ==
  { [filename |-> <<"a", ".", "j">>, file_data |-> <<16, 17, 4, 0>>,
     mime_type |-> "image/jpeg", width |-> 800, height |-> 600],
    [filename |-> <<"n">>, file_data |-> <<16, 16, 64, 64>>,
     mime_type |-> "image/png", width |-> Null, height |-> Null] }

\* uploads whose file_data is not canonical base64: digits without padding
\* whose last digit has spare bits set, a character outside the alphabet
\* between two digits, and text with no complete byte in it
FileInputs ==
  UploadInputs \cup
  { [filename |-> <<"a", ".", "j">>, file_data |-> <<16, 17>>,
     mime_type |-> "image/jpeg", width |-> 800, height |-> 600],
    [filename |-> <<"a", ".", "b", ".">>, file_data |-> <<16, 65, 17, 64>>,
     mime_type |-> "image/gif", width |-> Null, height |-> Null],
    [filename |-> <<".", "h">>, file_data |-> <<65, 16, 65>>,
     mime_type |-> "text/plain", width |-> Null, height |-> Null] }

\* DownloadImageInput as the handler can receive it: one of the two ids,
\* both (with the first processed id, which exists in some states and not in
\* others), or neither
DownloadInputs ==
  [{"image_id"} -> 1..(MaxImages + 1)]
    \cup [{"processed_image_id"} -> 1..(MaxProcessed + 1)]
    \cup { [k \in {"image_id", "processed_image_id"} |->
              IF k = "image_id" THEN i ELSE 1] : i \in 1..(MaxImages + 1) }
    \cup { [k \in {} |-> 0] }

\* the file the processing backend leaves at a processed path
BackendBytes == <<1, 2>>

(* --------------------------- pure helpers ------------------------------ *)

ImageIds(imgs) == { i.id : i \in imgs }

RowsOf(id, rows) == { p \in rows : p.original_image_id = id }

\* path.extname: from the last '.' to the end, '' when there is none or when
\* the only '.' is the first character
extname(name) ==
  LET dots == { i \in 1..Len(name) : name[i] = "." }
  IN  IF dots = {} THEN <<>>
      ELSE LET d == CHOOSE i \in dots : \A j \in dots : j <= i
           IN  IF d = 1 THEN <<>> ELSE SubSeq(name, d, Len(name))

getExtensionFromMimeType(mimeType) ==
  CASE mimeType = "image/jpeg" -> <<".", "j", "p", "g">>
    [] mimeType = "image/jpg"  -> <<".", "j", "p", "g">>
    [] mimeType = "image/png"  -> <<".", "p", "n", "g">>
    [] mimeType = "image/gif"  -> <<".", "g", "i", "f">>
    [] mimeType = "image/webp" -> <<".", "w", "e", "b", "p">>
    [] mimeType = "image/bmp"  -> <<".", "b", "m", "p">>
    [] mimeType = "image/tiff" -> <<".", "t", "i", "f", "f">>
    [] OTHER                   -> <<".", "b", "i", "n">>

\* Buffer.from(s, 'base64'): characters outside the alphabet are skipped,
\* decoding stops at the first '=', every 4 digits give 3 bytes, 3 trailing
\* digits give 2 bytes, 2 give 1 byte and a single trailing digit gives none.
RECURSIVE b64Digits(_)
b64Digits(s) ==
  IF s = <<>> THEN <<>>
  ELSE IF Head(s) = 64 THEN <<>>
  ELSE IF Head(s) > 64 THEN b64Digits(Tail(s))
  ELSE <<Head(s)>> \o b64Digits(Tail(s))

RECURSIVE b64Bytes(_)
b64Bytes(d) ==
  IF Len(d) < 2 THEN <<>>
  ELSE LET b1 == (d[1] * 4 + d[2] \div 16) % 256
       IN  IF Len(d) = 2 THEN <<b1>>
           ELSE LET b2 == ((d[2] % 16) * 16 + d[3] \div 4) % 256
                IN  IF Len(d) = 3 THEN <<b1, b2>>
                    ELSE <<b1, b2, ((d[3] % 4) * 64 + d[4]) % 256>>
                         \o b64Bytes(SubSeq(d, 5, Len(d)))

\* the bytes written as they came, without decoding
BufferFromBase64Raw(s) == s

BufferFromBase64(s) == b64Bytes(b64Digits(s))

\* buffer.toString('base64'): every 3 bytes give 4 digits, 2 trailing bytes
\* give 3 digits and one '=', 1 trailing byte gives 2 digits and two '='
RECURSIVE BufferToBase64(_)
BufferToBase64(b) ==
  IF b = <<>> THEN <<>>
  ELSE LET d1 == b[1] \div 4
           r1 == (b[1] % 4) * 16
       IN  IF Len(b) = 1 THEN <<d1, r1, 64, 64>>
           ELSE LET d2 == r1 + b[2] \div 16
                    r2 == (b[2] % 16) * 4
                IN  IF Len(b) = 2 THEN <<d1, d2, r2, 64>>
                    ELSE <<d1, d2, r2 + b[3] \div 64, b[3] % 64>>
                         \o BufferToBase64(SubSeq(b, 4, Len(b)))

(* --------------------------- store helpers ----------------------------- *)

\* the column declared without its reference to images.id
FKInsertOkUnchecked(values, imgs) == TRUE

\* foreign key processed_images.original_image_id -> images.id on insert
FKInsertOk(values, imgs) == values.original_image_id \in ImageIds(imgs)

\* the same foreign key on delete of an images row: no ON DELETE action is
\* declared, so a referenced row cannot be deleted
FKDeleteOk(id, rows) == RowsOf(id, rows) = {}


\* the times a request may read: the clock may have advanced since the last
\* reading, or not
Times == { t \in now..MaxTime : t <= now + 1 }

(* ------------------------------ Init ----------------------------------- *)

\* The response to the most recent request: the handler, the error it threw
\* ("" when it returned), the id the request named, the input of a request
\* that returned, and the rows it returned.
NoInput == [none |-> TRUE]

Last(op, err, id, input, result) ==
  [op |-> op, err |-> err, id |-> id, input |-> input, result |-> result]

Init ==
  /\ images = {}
  /\ processed = {}
  /\ imageSeq = 0
  /\ processedSeq = 0
  /\ files = {}
  /\ now = 0
  /\ last = Last("none", "", 0, NoInput, <<>>)
  /\ ops = 0
  /\ procPending = {}
  /\ delPending = {}
  /\ dlPending = {}
  /\ updPending = {}

(* ----------------------------- uploadImage ----------------------------- *)

\* the file named by the display filename instead of a random token
uniqueFilenameDisplay(input, uuid) ==
  [uuid |-> 0, ext |-> input.filename]

\* `${randomUUID()}${fileExtension}`: the token and the extension, which is
\* the display filename's when it has one and the MIME type's otherwise
uniqueFilename(input, uuid) ==
  LET fileExtension == IF extname(input.filename) # <<>>
                       THEN extname(input.filename)
                       ELSE getExtensionFromMimeType(input.mime_type)
  IN  [uuid |-> uuid, ext |-> fileExtension]

\* writeFile: the file is created, or replaced when the path exists
writeFile(fs, path, bytes) ==
  { f \in fs : f.path # path } \cup { [path |-> path, bytes |-> bytes] }

uploadImage(input, uuid, t) ==
  LET fileBuffer == BufferFromBase64(input.file_data)
      fileSize == Len(fileBuffer)
      filePath == uniqueFilename(input, uuid)
      row == [id |-> imageSeq + 1,
              filename |-> input.filename,
              original_path |-> filePath,
              file_size |-> fileSize,
              mime_type |-> input.mime_type,
              width |-> input.width,
              height |-> input.height,
              uploaded_at |-> t,
              updated_at |-> t]
  IN  /\ imageSeq < MaxImages
      /\ files' = writeFile(files, filePath, fileBuffer)
      /\ images' = images \cup {row}
      /\ imageSeq' = imageSeq + 1
      /\ now' = t
      /\ last' = Last("uploadImage", "", 0, input, <<row>>)
      /\ UNCHANGED <<processed, processedSeq, procPending, delPending, dlPending, updPending>>

(* ----------------------------- processImage ---------------------------- *)

\* the insert with the status and the type written as literals
processImageValuesLiteral(input) ==
  [original_image_id |-> input.image_id,
   processed_path |-> "",
   processing_status |-> "processing",
   processing_type |-> "background_removal",
   file_size |-> Null,
   width |-> Null,
   height |-> Null,
   error_message |-> NullS,
   processed_at |-> Null]

\* the values of the insert statement
processImageValues(input) ==
  [original_image_id |-> input.image_id,
   processed_path |-> "",
   processing_status |-> "pending",
   processing_type |-> input.processing_type,
   file_size |-> Null,
   width |-> Null,
   height |-> Null,
   error_message |-> NullS,
   processed_at |-> Null]

\* the row the insert creates: id from the sequence, created_at and
\* updated_at from defaultNow()
insertedRow(values, id, t) ==
  [id |-> id,
   original_image_id |-> values.original_image_id,
   processed_path |-> values.processed_path,
   processing_status |-> values.processing_status,
   processing_type |-> values.processing_type,
   file_size |-> values.file_size,
   width |-> values.width,
   height |-> values.height,
   error_message |-> values.error_message,
   processed_at |-> values.processed_at,
   created_at |-> t,
   updated_at |-> t]

\* the select without its length check
processImageExistsUnchecked(input, imgs) == TRUE

\* step 1: select the image by id
processImageExists(input, imgs) ==
  { i \in imgs : i.id = input.image_id } # {}

\* an insert that replaces the row of the same image and processing type
insertRowUpsert(rows, row) ==
  { p \in rows : ~(/\ p.original_image_id = row.original_image_id
                   /\ p.processing_type = row.processing_type) } \cup {row}

\* INSERT INTO processed_images: the table has no unique key but the id
insertRow(rows, row) == rows \cup {row}

\* step 2: the insert, under the foreign key; the sequence value is consumed
\* also when the insert is rejected
processImageInsert(input, t) ==
  LET values == processImageValues(input)
      row == insertedRow(values, processedSeq + 1, t)
  IN  /\ processedSeq < MaxProcessed
      /\ processedSeq' = processedSeq + 1
      /\ now' = t
      /\ IF FKInsertOk(values, images)
         THEN /\ processed' = insertRow(processed, row)
              /\ last' = Last("processImage", "", input.image_id, input, <<row>>)
         ELSE /\ processed' = processed
              /\ last' = Last("processImage", "foreign key violation", input.image_id, NoInput, <<>>)
      /\ UNCHANGED <<images, imageSeq, files>>

processImage(input, t) ==
  IF processImageExists(input, images)
  THEN /\ processImageInsert(input, t)
       /\ UNCHANGED <<procPending, delPending, dlPending, updPending>>
  ELSE /\ last' = Last("processImage", "not found", input.image_id, NoInput, <<>>)
       /\ UNCHANGED <<images, processed, imageSeq, processedSeq, files, now,
                      procPending, delPending, dlPending, updPending>>

(* ------------------------ updateProcessingStatus ----------------------- *)

Has(input, k) == k \in DOMAIN input

\* a full replace: every optional column is written, absent keys as empty
updateValuesFull(input, t) ==
  [k \in {"processing_status", "updated_at", "processed_at"} \cup OptionalFields |->
     CASE k = "processing_status" -> input.status
       [] k = "updated_at"        -> t
       [] k = "processed_at"      -> t
       [] k = "processed_path"    -> IF Has(input, k) THEN input[k] ELSE ""
       [] k = "error_message"     -> IF Has(input, k) THEN input[k] ELSE NullS
       [] OTHER                   -> IF Has(input, k) THEN input[k] ELSE Null]

\* processed_at written on every update: the time when completed, null otherwise
updateValuesClearing(input, t) ==
  LET keys == {"processing_status", "updated_at", "processed_at"}
              \cup { k \in OptionalFields : Has(input, k) }
  IN  [k \in keys |->
         CASE k = "processing_status" -> input.status
           [] k = "updated_at"        -> t
           [] k = "processed_at"      -> IF input.status = "completed" THEN t ELSE Null
           [] OTHER                   -> input[k]]

\* processed_at never written
updateValuesNoStamp(input, t) ==
  LET keys == {"processing_status", "updated_at"}
              \cup { k \in OptionalFields : Has(input, k) }
  IN  [k \in keys |->
         CASE k = "processing_status" -> input.status
           [] k = "updated_at"        -> t
           [] OTHER                   -> input[k]]

\* a null error_message treated as an absent one
updateValuesNullIgnored(input, t) ==
  LET keys == {"processing_status", "updated_at"}
              \cup (IF input.status = "completed" THEN {"processed_at"} ELSE {})
              \cup { k \in OptionalFields :
                       Has(input, k) /\ (k = "error_message" => input[k] # NullS) }
  IN  [k \in keys |->
         CASE k = "processing_status" -> input.status
           [] k = "updated_at"        -> t
           [] k = "processed_at"      -> t
           [] OTHER                   -> input[k]]

\* an update that also stamps created_at
updateValuesRecreated(input, t) ==
  LET keys == {"processing_status", "updated_at", "created_at"}
              \cup (IF input.status = "completed" THEN {"processed_at"} ELSE {})
              \cup { k \in OptionalFields : Has(input, k) }
  IN  [k \in keys |->
         CASE k = "processing_status" -> input.status
           [] k = "updated_at"        -> t
           [] k = "created_at"        -> t
           [] k = "processed_at"      -> t
           [] OTHER                   -> input[k]]

\* the dynamically built updateValues object
updateValues(input, t) ==
  LET keys == {"processing_status", "updated_at"}
              \cup (IF input.status = "completed" THEN {"processed_at"} ELSE {})
              \cup { k \in OptionalFields : Has(input, k) }
  IN  [k \in keys |->
         CASE k = "processing_status" -> input.status
           [] k = "updated_at"        -> t
           [] k = "processed_at"      -> t
           [] OTHER                   -> input[k]]

\* UPDATE ... SET: the columns named in values are overwritten
applySet(row, values) ==
  [k \in DOMAIN row |-> IF k \in DOMAIN values THEN values[k] ELSE row[k]]

\* the update without its length check
updateErrorUnchecked(result) == ""

\* result.length === 0 throws
updateError(result) == IF result = {} THEN "not found" ELSE ""

\* a WHERE clause that also leaves finished rows alone
updateWhereUnfinished(input, rows) ==
  { p \in rows : /\ p.id = input.processed_image_id
                 /\ p.processing_status \notin {"completed", "failed"} }

\* .where(eq(processedImagesTable.id, input.processed_image_id))
updateWhere(input, rows) == { p \in rows : p.id = input.processed_image_id }

updateProcessingStatus(input, t) ==
  LET matched == updateWhere(input, processed)
  IN  \E result \in { { applySet(p, updateValues(input, t)) : p \in matched } } :
        IF updateError(result) # ""
        THEN /\ last' = Last("updateProcessingStatus", updateError(result),
                             input.processed_image_id, NoInput, <<>>)
             /\ UNCHANGED <<images, processed, imageSeq, processedSeq, files, now,
                            procPending, delPending, dlPending, updPending>>
        ELSE /\ processed' = (processed \ matched) \cup result
             /\ now' = t
             /\ last' = Last("updateProcessingStatus", "", input.processed_image_id,
                             input, IF result = {} THEN <<>>
                                    ELSE <<CHOOSE r \in result : TRUE>>)
             /\ UNCHANGED <<images, imageSeq, processedSeq, files,
                            procPending, delPending, dlPending, updPending>>

(* ----------------------------- deleteImage ----------------------------- *)

\* only the completed dependents are deleted
deleteDependentsCompleted(id, rows) ==
  rows \ { p \in RowsOf(id, rows) : p.processing_status = "completed" }

\* delete from processed_images where original_image_id = id
deleteDependents(id, rows) == rows \ RowsOf(id, rows)

\* delete from images where id = id, under the foreign key
deleteOwner(id) ==
  IF FKDeleteOk(id, processed')
  THEN /\ images' = { i \in images : i.id # id }
       /\ last' = Last("deleteImage", "", id, NoInput, <<>>)
  ELSE /\ images' = images
       /\ last' = Last("deleteImage", "foreign key violation", id, NoInput, <<>>)

\* the lookup without its check
deleteImageExistsUnchecked(id, imgs) == TRUE

\* the lookup of the image by id
deleteImageExists(id, imgs) == id \in ImageIds(imgs)

deleteImage(id) ==
  IF ~deleteImageExists(id, images)
  THEN /\ last' = Last("deleteImage", "not found", id, NoInput, <<>>)
       /\ UNCHANGED <<images, processed, imageSeq, processedSeq, files, now,
                      procPending, delPending, dlPending, updPending>>
  ELSE /\ processed' = deleteDependents(id, processed)
       /\ deleteOwner(id)
       /\ UNCHANGED <<imageSeq, processedSeq, files, now,
                      procPending, delPending, dlPending, updPending>>

(* ------------------------------ getGallery ----------------------------- *)

\* the rows of images LEFT JOIN processed_images: <<image, processed row>>,
\* or <<image, <<>>>> for an image without dependents
JoinRows(imgs, rows) ==
  UNION { { <<i, p>> : p \in RowsOf(i.id, rows) } : i \in imgs }
    \cup { <<i, <<>>>> : i \in { x \in imgs : RowsOf(x.id, rows) = {} } }

\* the orders ORDER BY uploaded_at DESC may deliver a set of joined rows in:
\* each next row is one of those with the latest uploaded_at among the rows
\* left, so rows with equal uploaded_at come in any order
RECURSIVE OrdersDesc(_)
OrdersDesc(J) ==
  IF J = {} THEN {<<>>}
  ELSE UNION { { <<x>> \o o : o \in OrdersDesc(J \ {x}) } :
               x \in { y \in J : \A z \in J : y[1].uploaded_at >= z[1].uploaded_at } }

\* the same with ORDER BY uploaded_at ASC
RECURSIVE OrdersAsc(_)
OrdersAsc(J) ==
  IF J = {} THEN {<<>>}
  ELSE UNION { { <<x>> \o o : o \in OrdersAsc(J \ {x}) } :
               x \in { y \in J : \A z \in J : y[1].uploaded_at <= z[1].uploaded_at } }

JoinOrdersAscending(imgs, rows) == OrdersAsc(JoinRows(imgs, rows))

JoinOrders(imgs, rows) == OrdersDesc(JoinRows(imgs, rows))

\* the loop over the joined rows: imageMap keeps its keys in insertion order
\* and collects each image's processed rows in the order they arrive
RECURSIVE groupRows(_, _)
groupRows(results, imageMap) ==
  IF results = <<>> THEN imageMap
  ELSE LET image == Head(results)[1]
           processedImage == Head(results)[2]
           has == \E k \in 1..Len(imageMap) : imageMap[k].id = image.id
           m1 == IF has THEN imageMap
                 ELSE Append(imageMap,
                        [id |-> image.id,
                         filename |-> image.filename,
                         original_path |-> image.original_path,
                         file_size |-> image.file_size,
                         mime_type |-> image.mime_type,
                         width |-> image.width,
                         height |-> image.height,
                         uploaded_at |-> image.uploaded_at,
                         updated_at |-> image.updated_at,
                         processed_images |-> <<>>])
           m2 == IF processedImage = <<>> THEN m1
                 ELSE [k \in 1..Len(m1) |->
                         IF m1[k].id = image.id
                         THEN [m1[k] EXCEPT !.processed_images = Append(@, processedImage)]
                         ELSE m1[k]]
       IN  groupRows(Tail(results), m2)

\* the filter with every in place of some
RECURSIVE filterAllCompleted(_)
filterAllCompleted(list) ==
  IF list = <<>> THEN <<>>
  ELSE LET image == Head(list)
           every == \A k \in 1..Len(image.processed_images) :
                      image.processed_images[k].processing_status = "completed"
       IN  (IF every THEN <<image>> ELSE <<>>) \o filterAllCompleted(Tail(list))

\* a filter that also asks for a result blob's path
RECURSIVE filterCompletedWithPath(_)
filterCompletedWithPath(list) ==
  IF list = <<>> THEN <<>>
  ELSE LET image == Head(list)
           some == \E k \in 1..Len(image.processed_images) :
                     /\ image.processed_images[k].processing_status = "completed"
                     /\ image.processed_images[k].processed_path # ""
       IN  (IF some THEN <<image>> ELSE <<>>) \o filterCompletedWithPath(Tail(list))

\* Array.filter: keeps the order
RECURSIVE filterCompleted(_)
filterCompleted(list) ==
  IF list = <<>> THEN <<>>
  ELSE LET image == Head(list)
           some == \E k \in 1..Len(image.processed_images) :
                     image.processed_images[k].processing_status = "completed"
       IN  (IF some THEN <<image>> ELSE <<>>) \o filterCompleted(Tail(list))

galleryImages(results) == filterCompleted(groupRows(results, <<>>))

getGallery ==
  \E results \in JoinOrders(images, processed) :
    /\ last' = Last("getGallery", "", 0, NoInput, galleryImages(results))
    /\ UNCHANGED <<images, processed, imageSeq, processedSeq, files, now,
                   procPending, delPending, dlPending, updPending>>

(* ------------------------------ getImages ------------------------------ *)

\* the orders a SELECT without ORDER BY may deliver its rows in
RECURSIVE Orders(_)
Orders(S) ==
  IF S = {} THEN {<<>>}
  ELSE UNION { { <<x>> \o o : o \in Orders(S \ {x}) } : x \in S }

\* LIMIT and OFFSET over the rows in the order delivered
limitOffset(rows, limit, offset) ==
  SubSeq(rows, offset + 1, IF offset + limit < Len(rows) THEN offset + limit ELSE Len(rows))

\* the join without its WHERE condition
joinedResultsUnfiltered(input, imgs, rows) ==
  UNION { { <<i, p>> : p \in RowsOf(i.id, rows) } : i \in imgs }

\* images INNER JOIN processed_images WHERE processing_status = the filter:
\* one row per matching processed row
joinedResults(input, imgs, rows) ==
  UNION { { <<i, p>> : p \in { q \in RowsOf(i.id, rows) :
                                  q.processing_status = input.processing_status } } :
          i \in imgs }

\* the value of `images` after the first query: the image of each joined row
\* of the page, or the page of the images table
selectedImages(input, imgs, rows) ==
  IF Has(input, "processing_status")
  THEN { [k \in 1..Len(page) |-> page[k][1]] :
           page \in { limitOffset(o, input.limit, input.offset) :
                        o \in Orders(joinedResults(input, imgs, rows)) } }
  ELSE { limitOffset(o, input.limit, input.offset) : o \in Orders(imgs) }

\* { ...image, processed_images }
withProcessed(image, processedImages) ==
  [id |-> image.id,
   filename |-> image.filename,
   original_path |-> image.original_path,
   file_size |-> image.file_size,
   mime_type |-> image.mime_type,
   width |-> image.width,
   height |-> image.height,
   uploaded_at |-> image.uploaded_at,
   updated_at |-> image.updated_at,
   processed_images |-> processedImages]

\* the second query, in the orders it may deliver its rows in
allProcessedImages(input, selected, rows) ==
  IF ~input.include_processed \/ selected = <<>>
  THEN {<<>>}
  ELSE Orders({ p \in rows :
                  \E k \in 1..Len(selected) : p.original_image_id = selected[k].id })

\* images.map over processedImagesByOriginalId, which keeps the rows of one
\* owner in the order they arrived
combineImages(selected, allProcessed) ==
  [k \in 1..Len(selected) |->
     withProcessed(selected[k],
                   SelectSeq(allProcessed,
                             LAMBDA p : p.original_image_id = selected[k].id))]

getImages(input) ==
  \E selected \in selectedImages(input, images, processed) :
    \E allProcessed \in allProcessedImages(input, selected, processed) :
      /\ last' = Last("getImages", "", 0, input, combineImages(selected, allProcessed))
      /\ UNCHANGED <<images, processed, imageSeq, processedSeq, files, now,
                     procPending, delPending, dlPending, updPending>>

(* ----------------------------- getImageById ---------------------------- *)

\* absence reported as an error
getImageByIdMissingThrows(id) == Last("getImageById", "not found", id, NoInput, <<>>)

\* no image has the id: the result is null, written as the empty list
getImageByIdMissing(id) == Last("getImageById", "", id, NoInput, <<>>)

\* only the completed rows of the image
getImageByIdRowsCompleted(id, rows) ==
  { p \in RowsOf(id, rows) : p.processing_status = "completed" }

\* the processed rows of the image, unfiltered
getImageByIdRows(id, rows) == RowsOf(id, rows)

getImageById(id) ==
  LET found == { i \in images : i.id = id }
  IN  /\ IF found = {}
         THEN last' = getImageByIdMissing(id)
         ELSE \E image \in found, ps \in Orders(getImageByIdRows(id, processed)) :
                last' = Last("getImageById", "", id, NoInput, <<withProcessed(image, ps)>>)
      /\ UNCHANGED <<images, processed, imageSeq, processedSeq, files, now,
                     procPending, delPending, dlPending, updPending>>

(* ----------------------------- downloadImage --------------------------- *)

\* a path outside the uploads directory, named by its whole text
ProcessedPath(p) == [uuid |-> 0, ext |-> <<p>>]

\* fs.readFile: the bytes of the file at the path; none when it is missing
readFile(fs, path) == { f.bytes : f \in { g \in fs : g.path = path } }

\* the type always appended after the whole filename
processedFilenameAppended(originalName, processingType) ==
  originalName \o <<"_", processingType>>

\* `${baseName}_${processing_type}${extension}` around lastIndexOf('.'),
\* which is -1 without a '.' and 0 for a '.' in first place
processedFilename(originalName, processingType) ==
  LET dots == { i \in 1..Len(originalName) : originalName[i] = "." }
      extensionIndex == IF dots = {} THEN -1
                        ELSE (CHOOSE i \in dots : \A j \in dots : j <= i) - 1
      baseName == IF extensionIndex > 0
                  THEN SubSeq(originalName, 1, extensionIndex)
                  ELSE originalName
      extension == IF extensionIndex > 0
                   THEN SubSeq(originalName, extensionIndex + 1, Len(originalName))
                   ELSE <<>>
  IN  baseName \o <<"_", processingType>> \o extension

\* the response without a look at whether the file exists
downloadResponseUnread(input, id, filePath, filename, mimeType, fileSize) ==
  Last("downloadImage", "", id, input,
       <<[filename |-> filename,
          file_data |-> IF readFile(files, filePath) = {} THEN <<>>
                        ELSE BufferToBase64(CHOOSE b \in readFile(files, filePath) : TRUE),
          mime_type |-> mimeType,
          file_size |-> fileSize]>>)

\* the response, or the error of the missing file
downloadResponse(input, id, filePath, filename, mimeType, fileSize) ==
  IF readFile(files, filePath) = {}
  THEN Last("downloadImage", "ENOENT", id, input, <<>>)
  ELSE Last("downloadImage", "", id, input,
            <<[filename |-> filename,
               file_data |-> BufferToBase64(CHOOSE b \in readFile(files, filePath) : TRUE),
               mime_type |-> mimeType,
               file_size |-> fileSize]>>)

\* the branches tested in the other order
downloadBranchProcessedFirst(input) ==
  IF Has(input, "processed_image_id") THEN "processed"
  ELSE IF Has(input, "image_id") THEN "original"
  ELSE "neither"

\* if (input.image_id !== undefined) ... else if (input.processed_image_id
\* !== undefined) ... else
downloadBranch(input) ==
  IF Has(input, "image_id") THEN "original"
  ELSE IF Has(input, "processed_image_id") THEN "processed"
  ELSE "neither"

\* the original branch: one select, then the read of the file
downloadOriginal(input) ==
  LET results == { i \in images : i.id = input.image_id }
  IN  IF results = {}
      THEN last' = Last("downloadImage", "not found", input.image_id, input, <<>>)
      ELSE \E imageRecord \in results :
             last' = downloadResponse(input, input.image_id,
                                      imageRecord.original_path,
                                      imageRecord.filename,
                                      imageRecord.mime_type,
                                      imageRecord.file_size)

\* the processed branch, first select: the processed row
downloadProcessedRows(input, rows) ==
  { p \in rows : p.id = input.processed_image_id }

downloadProcessedMissing(input) ==
  Last("downloadImage", "processed image not found", input.processed_image_id, input, <<>>)

\* a missing owner reported as a missing processed row
downloadProcessedOwnerMerged(input, imageRecord) ==
  LET originalResults == { i \in images : i.id = imageRecord.original_image_id }
  IN  IF originalResults = {}
      THEN last' = downloadProcessedMissing(input)
      ELSE \E originalImage \in originalResults :
             last' = downloadResponse(
                       input, input.processed_image_id,
                       ProcessedPath(imageRecord.processed_path),
                       processedFilename(originalImage.filename,
                                         imageRecord.processing_type),
                       originalImage.mime_type,
                       IF imageRecord.file_size \in {Null, 0}
                       THEN 0 ELSE imageRecord.file_size)

\* the processed branch, second select: the owner of the row read before,
\* then the read of the file
downloadProcessedOwner(input, imageRecord) ==
  LET originalResults == { i \in images : i.id = imageRecord.original_image_id }
  IN  IF originalResults = {}
      THEN last' = Last("downloadImage", "original image for processed image not found",
                        input.processed_image_id, input, <<>>)
      ELSE \E originalImage \in originalResults :
             last' = downloadResponse(
                       input, input.processed_image_id,
                       ProcessedPath(imageRecord.processed_path),
                       processedFilename(originalImage.filename,
                                         imageRecord.processing_type),
                       originalImage.mime_type,
                       IF imageRecord.file_size \in {Null, 0}
                       THEN 0 ELSE imageRecord.file_size)

downloadImage(input) ==
  /\ CASE downloadBranch(input) = "original" -> downloadOriginal(input)
       [] downloadBranch(input) = "processed" ->
            IF downloadProcessedRows(input, processed) = {}
            THEN last' = downloadProcessedMissing(input)
            ELSE \E imageRecord \in downloadProcessedRows(input, processed) :
                   downloadProcessedOwner(input, imageRecord)
       [] OTHER ->
            last' = Last("downloadImage", "validation", 0, input, <<>>)
  /\ UNCHANGED <<images, processed, imageSeq, processedSeq, files, now,
                 procPending, delPending, dlPending, updPending>>

(* --------------------------- processing backend ------------------------ *)

\* the external backend writes its result to the path it will report
backendWrite(p) ==
  /\ files' = writeFile(files, ProcessedPath(p), BackendBytes)
  /\ last' = Last("backendWrite", "", 0, NoInput, <<>>)
  /\ UNCHANGED <<images, processed, imageSeq, processedSeq, now,
                 procPending, delPending, dlPending, updPending>>

(* ------------------------------ requests ------------------------------- *)

\* the handlers that only read the store
ReadOps == {"getGallery", "getImages", "getImageById", "downloadImage"}

\* a request that succeeds and is not a read counts against the budget
Count(max) ==
  IF last'.err = "" /\ last'.op \notin ReadOps
  THEN ops < max /\ ops' = ops + 1
  ELSE ops' = ops

\* the ids a caller can name: those handed out so far and one never issued
SentImageIds == 1..(imageSeq + 1)

SentProcessedIds == 1..(processedSeq + 1)

\* one upload input
JpegInputs == { in \in UploadInputs : in.mime_type = "image/jpeg" }

\* randomUUID() is modelled as a token never handed out before
UploadImage(inputs, max) ==
  /\ \E input \in inputs, t \in Times : uploadImage(input, imageSeq + 1, t)
  /\ Count(max)

ProcessImage(inputs, max) ==
  /\ \E input \in inputs, t \in Times :
       /\ input.image_id \in SentImageIds
       /\ processImage(input, t)
  /\ Count(max)

UpdateProcessingStatus(inputs, max) ==
  /\ \E input \in inputs, t \in Times :
       /\ input.processed_image_id \in SentProcessedIds
       /\ updateProcessingStatus(input, t)
  /\ Count(max)

DeleteImage(max) ==
  /\ \E id \in SentImageIds : deleteImage(id)
  /\ Count(max)

GetGallery ==
  /\ getGallery
  /\ Count(0)

GetImages ==
  /\ \E input \in GetImagesInputs : getImages(input)
  /\ Count(0)

GetImageById ==
  /\ \E id \in SentImageIds : getImageById(id)
  /\ Count(0)

DownloadImage ==
  /\ \E input \in DownloadInputs :
       /\ Has(input, "image_id") => input.image_id \in SentImageIds
       /\ Has(input, "processed_image_id") => input.processed_image_id \in SentProcessedIds
       /\ downloadImage(input)
  /\ Count(0)

BackendWrite(inputs, max) ==
  /\ \E input \in inputs : backendWrite(input.processed_path)
  /\ Count(max)


(* ------------------------------ Next ----------------------------------- *)

\* status updates with every combination of optional fields
NextUpdate ==
  \/ UploadImage(JpegInputs, MaxOps)
  \/ ProcessImage(DefaultTypeInputs, MaxOps)
  \/ UpdateProcessingStatus(UpdateInputs, MaxOps)

SpecUpdate == Init /\ [][NextUpdate]_vars

\* the handlers that change or read which rows exist, with status-only updates
\* downloads of a processed result alone
ProcessedDownloadInputs ==
  { in \in DownloadInputs : DOMAIN in = {"processed_image_id"} }

DownloadProcessedImage ==
  /\ \E input \in ProcessedDownloadInputs :
       /\ input.processed_image_id \in SentProcessedIds
       /\ downloadImage(input)
  /\ Count(0)

NextStore ==
  \/ UploadImage(UploadInputs, MaxStoreOps)
  \/ ProcessImage(ProcessInputs, MaxStoreOps)
  \/ UpdateProcessingStatus(StatusInputs, MaxStoreOps)
  \/ DeleteImage(MaxStoreOps)
  \/ GetGallery
  \/ DownloadProcessedImage

SpecStore == Init /\ [][NextStore]_vars

\* update inputs that carry the status only and set it to completed
CompletedInputs == { in \in StatusInputs : in.status = "completed" }

\* getImages over images whose rows are pending or completed; the clock
\* advances between uploads only
NextQuery ==
  \/ UploadImage(JpegInputs, MaxQueryOps)
  \/ ProcessImage(DefaultTypeInputs, MaxQueryOps) /\ now' = now
  \/ UpdateProcessingStatus(CompletedInputs, MaxQueryOps) /\ now' = now
  \/ GetImages

SpecQuery == Init /\ [][NextQuery]_vars

\* getGallery over the same images, in longer runs
NextGallery ==
  \/ UploadImage(JpegInputs, MaxGalleryOps)
  \/ ProcessImage(DefaultTypeInputs, MaxGalleryOps) /\ now' = now
  \/ UpdateProcessingStatus(CompletedInputs, MaxGalleryOps) /\ now' = now
  \/ GetGallery

SpecGallery == Init /\ [][NextGallery]_vars

\* update inputs that report a completed result: its path, size and dimensions
ResultInputs ==
  { in \in UpdateInputs :
      /\ in.status = "completed"
      /\ Has(in, "processed_path")
      /\ Has(in, "file_size") }

\* uploads of every payload and filename, the backend's results, downloads
\* and getImageById, all at one reading of the clock
NextFiles ==
  \/ UploadImage(FileInputs, MaxFileOps) /\ now' = now
  \/ ProcessImage(ProcessInputs, MaxFileOps) /\ now' = now
  \/ UpdateProcessingStatus(ResultInputs, MaxFileOps) /\ now' = now
  \/ BackendWrite(ResultInputs, MaxFileOps)
  \/ DeleteImage(MaxFileOps)
  \/ DownloadImage
  \/ GetImageById

SpecFiles == Init /\ [][NextFiles]_vars

(* ------------------------ interleaved requests ------------------------- *)

\* processImage, statement 1: the select.  A request that found its image
\* waits in procPending for its insert.
ProcessSelect ==
  \E input \in ProcessInputs :
    /\ input.image_id \in SentImageIds
    /\ IF processImageExists(input, images)
       THEN /\ ops < MaxConcOps
            /\ ops' = ops + 1
            /\ procPending' = procPending \cup {input}
            /\ UNCHANGED last
       ELSE /\ last' = Last("processImage", "not found", input.image_id, NoInput, <<>>)
            /\ UNCHANGED <<ops, procPending>>
    /\ UNCHANGED <<images, processed, imageSeq, processedSeq, files, now, delPending, dlPending, updPending>>

\* processImage, statement 2: the insert
ProcessInsert ==
  \E input \in procPending, t \in Times :
    /\ processImageInsert(input, t)
    /\ procPending' = procPending \ {input}
    /\ UNCHANGED <<ops, delPending, dlPending, updPending>>

\* deleteImage: the lookup.  A request that found its image waits in
\* delPending, first for the delete of the dependents, then for the delete
\* of the owner.
DeleteSelect ==
  \E id \in SentImageIds :
    /\ IF deleteImageExists(id, images)
       THEN /\ ops < MaxConcOps
            /\ ops' = ops + 1
            /\ delPending' = delPending \cup {[id |-> id, stage |-> "found"]}
            /\ UNCHANGED last
       ELSE /\ last' = Last("deleteImage", "not found", id, NoInput, <<>>)
            /\ UNCHANGED <<ops, delPending>>
    /\ UNCHANGED <<images, processed, imageSeq, processedSeq, files, now, procPending, dlPending, updPending>>

DeleteDependents ==
  \E d \in delPending :
    /\ d.stage = "found"
    /\ processed' = deleteDependents(d.id, processed)
    /\ delPending' = (delPending \ {d}) \cup {[id |-> d.id, stage |-> "dependents deleted"]}
    /\ UNCHANGED <<images, imageSeq, processedSeq, files, now, last, ops, procPending, dlPending, updPending>>

DeleteOwner ==
  \E d \in delPending :
    /\ d.stage = "dependents deleted"
    /\ processed' = processed
    /\ deleteOwner(d.id)
    /\ delPending' = delPending \ {d}
    /\ UNCHANGED <<imageSeq, processedSeq, files, now, ops, procPending, dlPending, updPending>>

\* the server stops between two statements of a request
Crash ==
  /\ \/ \E d \in delPending :
          delPending' = delPending \ {d} /\ UNCHANGED procPending
     \/ \E input \in procPending :
          procPending' = procPending \ {input} /\ UNCHANGED delPending
  /\ UNCHANGED <<images, processed, imageSeq, processedSeq, files, now, last, ops, dlPending, updPending>>

NextConc ==
  \/ UploadImage(JpegInputs, MaxConcOps)
  \/ UpdateProcessingStatus(StatusInputs, MaxConcOps)
  \/ ProcessSelect
  \/ ProcessInsert
  \/ DeleteSelect
  \/ DeleteDependents
  \/ DeleteOwner
  \/ Crash

SpecConc == Init /\ [][NextConc]_vars

(* ------------- downloadImage, one store statement at a time ------------ *)

\* downloads of an original alone
OriginalDownloadInputs ==
  { in \in DownloadInputs : DOMAIN in = {"image_id"} }

\* downloadImage by image_id: one select, then the file read
DownloadOriginalImage ==
  /\ \E input \in OriginalDownloadInputs :
       /\ input.image_id \in SentImageIds
       /\ downloadImage(input)
  /\ Count(0)

\* downloadImage by processed_image_id, statement 1: the select of the
\* processed row.  A request that found its row waits in dlPending for the
\* select of the owner.
DownloadSelect ==
  \E input \in ProcessedDownloadInputs :
    /\ input.processed_image_id \in SentProcessedIds
    /\ IF downloadProcessedRows(input, processed) = {}
       THEN /\ last' = downloadProcessedMissing(input)
            /\ UNCHANGED dlPending
       ELSE /\ Cardinality(dlPending) < MaxDownloads
            /\ \E imageRecord \in downloadProcessedRows(input, processed) :
                 dlPending' = dlPending \cup
                                {[input |-> input, imageRecord |-> imageRecord]}
            /\ last' = Last("none", "", 0, NoInput, <<>>)
    /\ UNCHANGED <<images, processed, imageSeq, processedSeq, files, now, ops,
                   procPending, delPending, updPending>>

\* downloadImage by processed_image_id, statement 2: the select of the
\* owner, then the file read
DownloadOwner ==
  \E d \in dlPending :
    /\ downloadProcessedOwner(d.input, d.imageRecord)
    /\ dlPending' = dlPending \ {d}
    /\ UNCHANGED <<images, processed, imageSeq, processedSeq, files, now, ops,
                   procPending, delPending, updPending>>

NextDownload ==
  \/ UploadImage(JpegInputs, MaxDownloadOps) /\ now' = now
  \/ ProcessImage(DefaultTypeInputs, MaxDownloadOps) /\ now' = now
  \/ DeleteImage(MaxDownloadOps)
  \/ DownloadOriginalImage
  \/ DownloadSelect
  \/ DownloadOwner

SpecDownload == Init /\ [][NextDownload]_vars

(* ------- updateProcessingStatus of two callers, a statement at a time --- *)

\* the two callers whose requests overlap
Callers == {"a", "b"}

\* updates to a finished status that carry nothing more, the result path
\* of a completion or the error message of a failure
RaceInputs ==
  { in \in UpdateInputs :
      /\ in.status \in {"completed", "failed"}
      /\ DOMAIN in \subseteq {"processed_image_id", "status", "processed_path",
                              "error_message"}
      /\ Has(in, "processed_path") => in.status = "completed"
      /\ Has(in, "error_message") => in.status = "failed" /\ in.error_message = "X" }

\* a statement that writes back the row as the request first saw it
updateSetStale(d, row) ==
  IF d.seen = {} THEN applySet(row, d.values)
  ELSE applySet(CHOOSE r \in d.seen : TRUE, d.values)

\* UPDATE processed_images SET values: applied to the row as it is when the
\* statement runs
updateSet(d, row) == applySet(row, d.values)

\* the handler up to its store statement: the clock is read and updateValues
\* is built.  seen is the row at that moment; the handler does not read it.
UpdateBuild ==
  \E c \in Callers, input \in RaceInputs, t \in Times :
    /\ input.processed_image_id \in SentProcessedIds
    /\ \A d \in updPending : d.caller # c /\ d.stage = "built"
    /\ ops < MaxRaceOps
    /\ ops' = ops + 1
    /\ now' = t
    /\ updPending' = updPending \cup
                       {[caller |-> c, input |-> input, values |-> updateValues(input, t),
                         seen |-> updateWhere(input, processed), stage |-> "built",
                         order |-> 0, result |-> {}]}
    /\ UNCHANGED <<images, processed, imageSeq, processedSeq, files, last,
                   procPending, delPending, dlPending>>

\* the UPDATE ... RETURNING statement, atomic in the store
UpdateWrite ==
  \E d \in updPending :
    LET matched == updateWhere(d.input, processed)
        result == { updateSet(d, p) : p \in matched }
        written == { e \in updPending : e.stage = "written" }
    IN  /\ d.stage = "built"
        /\ processed' = (processed \ matched) \cup result
        /\ updPending' = (updPending \ {d}) \cup
                           {[d EXCEPT !.stage = "written", !.result = result,
                                      !.order = Cardinality(written) + 1]}
        /\ UNCHANGED <<images, imageSeq, processedSeq, files, now, last, ops,
                       procPending, delPending, dlPending>>

\* the handler after the statement: an empty result throws, a row is returned
UpdateRespond ==
  \E d \in updPending :
    /\ d.stage = "written"
    /\ last' = IF updateError(d.result) # ""
               THEN Last("updateProcessingStatus", updateError(d.result),
                         d.input.processed_image_id, NoInput, <<>>)
               ELSE Last("updateProcessingStatus", "", d.input.processed_image_id,
                         d.input, <<CHOOSE r \in d.result : TRUE>>)
    /\ updPending' = updPending \ {d}
    /\ UNCHANGED <<images, processed, imageSeq, processedSeq, files, now, ops,
                   procPending, delPending, dlPending>>

NextRace ==
  \/ UploadImage(JpegInputs, MaxRaceOps) /\ now' = now
  \/ ProcessImage(DefaultTypeInputs, MaxRaceOps) /\ now' = now
  \/ UpdateBuild
  \/ UpdateWrite
  \/ UpdateRespond

SpecRace == Init /\ [][NextRace]_vars

(* ============================== claims ================================= *)

Returned(op) == last.op = op /\ last.err = ""

Returns(op) == last'.op = op /\ last'.err = ""

(* C1: a status update that finds its row leaves every optional column     *)
(* (processed_path, file_size, width, height, error_message) whose key is  *)
(* absent from the input at its stored value, whatever the new status.     *)
C1_AbsentFieldsKept ==
  [][ Returns("updateProcessingStatus") =>
        \A p \in processed :
          p.id = last'.id =>
            \E q \in processed' :
              /\ q.id = p.id
              /\ \A f \in OptionalFields \ DOMAIN last'.input : q[f] = p[f] ]_vars

\* an update that sent file_size alone to a row holding a path and a width
C1_Witness ==
  /\ Returned("updateProcessingStatus")
  /\ DOMAIN last.input = {"processed_image_id", "status", "file_size"}
  /\ \E q \in processed :
       /\ q.id = last.id
       /\ q.processed_path = "/processed/a.png"
       /\ q.width = 400
       /\ q.height = 300

(* C2: a status update that finds its row sets processed_at to the current *)
(* time when the new status is completed, and leaves processed_at as it    *)
(* was stored when the new status is pending, processing or failed.        *)
C2_ProcessedAtStamp ==
  [][ Returns("updateProcessingStatus") =>
        \A p \in processed :
          p.id = last'.id =>
            \E q \in processed' :
              /\ q.id = p.id
              /\ IF last'.input.status = "completed"
                 THEN q.processed_at = now'
                 ELSE q.processed_at = p.processed_at ]_vars

\* an update away from completed that kept the timestamp
C2_Witness ==
  /\ Returned("updateProcessingStatus")
  /\ last.input.status # "completed"
  /\ \E q \in processed : q.id = last.id /\ q.processed_at # Null

(* C3 as claimed: in every reachable state, each processed row has         *)
(* processed_at non-null if and only if its status is completed.           *)
C3_ProcessedAtIffCompleted ==
  \A p \in processed :
    (p.processed_at # Null) <=> (p.processing_status = "completed")

(* C3 as amended: in every reachable state, each processed row whose       *)
(* status is completed has a non-null processed_at.                        *)
C3_CompletedHasProcessedAt ==
  \A p \in processed :
    p.processing_status = "completed" => p.processed_at # Null

C3_Witness ==
  \E p \in processed :
    p.processing_status = "completed" /\ p.processed_at # Null

(* C4: a status update naming an id that no processed row has fails with   *)
(* not found and leaves both tables as they were.                          *)
C4_UpdateNotFound ==
  [][ (last'.op = "updateProcessingStatus"
       /\ \A p \in processed : p.id # last'.id) =>
        /\ last'.err = "not found"
        /\ processed' = processed
        /\ images' = images ]_vars

\* the update failed while another row existed
C4_Witness ==
  /\ last.op = "updateProcessingStatus"
  /\ last.err = "not found"
  /\ processed # {}

(* C5: processImage for an existing image adds exactly one row, owned by   *)
(* that image, pending, with empty processed_path, the input's             *)
(* processing_type and null file_size, width, height, error_message and    *)
(* processed_at, and returns that row.                                     *)
C5_ProcessInserts ==
  [][ (last'.op = "processImage" /\ last'.id \in ImageIds(images)) =>
        /\ last'.err = ""
        /\ \E row \in processed' :
             /\ row \notin processed
             /\ \A p \in processed : p.id # row.id
             /\ processed' = processed \cup {row}
             /\ row.original_image_id = last'.input.image_id
             /\ row.processing_status = "pending"
             /\ row.processed_path = ""
             /\ row.processing_type = last'.input.processing_type
             /\ row.file_size = Null
             /\ row.width = Null
             /\ row.height = Null
             /\ row.error_message = NullS
             /\ row.processed_at = Null
             /\ last'.result = <<row>> ]_vars

\* a second row, of type resize
C5_Witness ==
  /\ Returned("processImage")
  /\ last.input.processing_type = "resize"
  /\ Cardinality(processed) = 2
  /\ last.result[1] \in processed

(* C6: processImage naming an id that no image has fails with not found    *)
(* and inserts nothing: both tables and the id sequence stay as they were. *)
C6_ProcessNotFound ==
  [][ (last'.op = "processImage" /\ last'.id \notin ImageIds(images)) =>
        /\ last'.err = "not found"
        /\ processed' = processed
        /\ images' = images
        /\ processedSeq' = processedSeq ]_vars

\* the request failed while another image existed
C6_Witness ==
  /\ last.op = "processImage"
  /\ last.err = "not found"
  /\ images # {}

(* C7: deleteImage of an existing image returns success, removes that      *)
(* image and every processed row it owns, and leaves every other image and *)
(* every processed row of another owner as it was.                         *)
C7_DeleteCascades ==
  [][ (last'.op = "deleteImage" /\ last'.id \in ImageIds(images)) =>
        /\ last'.err = ""
        /\ images' = { i \in images : i.id # last'.id }
        /\ processed' = { p \in processed : p.original_image_id # last'.id } ]_vars

\* a delete that removed a dependent row and left another image
C7_Witness ==
  /\ Returned("deleteImage")
  /\ images # {}
  /\ processedSeq > Cardinality(processed)

(* C8: deleteImage naming an id that no image has fails with not found and *)
(* changes neither table; so does a second deleteImage of a deleted id.    *)
C8_DeleteNotFound ==
  [][ (last'.op = "deleteImage" /\ last'.id \notin ImageIds(images)) =>
        /\ last'.err = "not found"
        /\ processed' = processed
        /\ images' = images ]_vars

\* the id was issued, so the image it named was deleted before
C8_Witness ==
  /\ last.op = "deleteImage"
  /\ last.err = "not found"
  /\ last.id <= imageSeq

(* C9: under any interleaving of the requests' statements, every processed *)
(* row's original_image_id is the id of an existing image.                 *)
C9_ReferentialIntegrity ==
  \A p \in processed : p.original_image_id \in ImageIds(images)

\* an insert arrived after a concurrent delete of its image and was refused
C9_Witness ==
  /\ last.op = "processImage"
  /\ last.err = "foreign key violation"

(* C10: getGallery returns exactly the images that have at least one       *)
(* completed processed row, each once, each with all of its processed rows *)
(* of every status.                                                        *)
C10_GalleryContents ==
  Returned("getGallery") =>
    LET r == last.result
    IN  /\ { r[k].id : k \in 1..Len(r) }
             = { i.id : i \in { x \in images :
                   \E p \in RowsOf(x.id, processed) : p.processing_status = "completed" } }
        /\ \A a, b \in 1..Len(r) : a # b => r[a].id # r[b].id
        /\ \A k \in 1..Len(r) :
             LET ps == r[k].processed_images
             IN  /\ { ps[j] : j \in 1..Len(ps) } = RowsOf(r[k].id, processed)
                 /\ Len(ps) = Cardinality(RowsOf(r[k].id, processed))

\* an image returned with a completed row and a row of another status
C10_Witness ==
  /\ Returned("getGallery")
  /\ \E k \in 1..Len(last.result) :
       LET ps == last.result[k].processed_images
       IN  \E a, b \in 1..Len(ps) :
             /\ ps[a].processing_status = "completed"
             /\ ps[b].processing_status # "completed"

(* C11: getGallery returns its images ordered by upload time descending:   *)
(* of any two returned images with different uploaded_at, the one uploaded *)
(* later comes first, however many processed rows each has and in whatever *)
(* order those rows were created.                                          *)
C11_GalleryOrder ==
  Returned("getGallery") =>
    LET r == last.result
    IN  \A a, b \in 1..Len(r) :
          r[a].uploaded_at > r[b].uploaded_at => a < b

\* the later upload comes first with one row, created before the two rows
\* of the earlier upload
C11_Witness ==
  /\ Returned("getGallery")
  /\ Len(last.result) = 2
  /\ last.result[1].uploaded_at > last.result[2].uploaded_at
  /\ Len(last.result[1].processed_images) = 1
  /\ Len(last.result[2].processed_images) = 2
  /\ last.result[1].processed_images[1].id < last.result[2].processed_images[1].id

\* the images that have at least one processed row of the given status
Qualifying(status) ==
  { i \in images : \E p \in RowsOf(i.id, processed) : p.processing_status = status }

(* C12: a getImages page under a processing_status filter holds no image   *)
(* twice, and holds limit distinct qualifying images when that many remain *)
(* after the offset (all that remain otherwise): an image with several     *)
(* processed rows of the filter status takes one page slot.                *)
C12_FilterDeduplicates ==
  (Returned("getImages") /\ Has(last.input, "processing_status")) =>
    LET r == last.result
        remain == Cardinality(Qualifying(last.input.processing_status)) - last.input.offset
    IN  /\ \A a, b \in 1..Len(r) : a # b => r[a].id # r[b].id
        /\ Len(r) = IF remain < 0 THEN 0
                    ELSE IF remain < last.input.limit THEN remain
                    ELSE last.input.limit

(* C13: under a processing_status filter S getImages returns only images   *)
(* that have at least one processed row of status S, and with              *)
(* include_processed each returned image carries all of its processed rows *)
(* of every status.                                                        *)
C13_FilterSelectsImages ==
  (Returned("getImages") /\ Has(last.input, "processing_status")) =>
    LET r == last.result
    IN  \A k \in 1..Len(r) :
          /\ \E i \in Qualifying(last.input.processing_status) : i.id = r[k].id
          /\ last.input.include_processed =>
               LET ps == r[k].processed_images
               IN  /\ { ps[j] : j \in 1..Len(ps) } = RowsOf(r[k].id, processed)
                   /\ Len(ps) = Cardinality(RowsOf(r[k].id, processed))

\* an image selected by its pending row is returned with its completed row
C13_Witness ==
  /\ Returned("getImages")
  /\ Has(last.input, "processing_status")
  /\ last.input.processing_status = "pending"
  /\ last.input.include_processed
  /\ \E k \in 1..Len(last.result) :
       LET ps == last.result[k].processed_images
       IN  \E a, b \in 1..Len(ps) :
             /\ ps[a].processing_status = "pending"
             /\ ps[b].processing_status = "completed"

\* the ids listed in a getImages or getGallery response
ResultIds(r) == { r[k].id : k \in 1..Len(r) }

\* the size of the page at an offset over n rows
PageSize(n, limit, offset) ==
  IF n - offset < 0 THEN 0
  ELSE IF n - offset < limit THEN n - offset
  ELSE limit

\* an unfiltered getImages response
Unfiltered(resp) ==
  /\ resp.op = "getImages"
  /\ resp.err = ""
  /\ ~Has(resp.input, "processing_status")

(* C14: over an unchanged store of N images and without a status filter,   *)
(* two successive getImages calls with the same limit L, the second at the *)
(* next offset, return pages of size min(L, N - offset) that share no      *)
(* image id; when they start at offset 0 and N <= 2L their union is the    *)
(* set of all N image ids.                                                 *)
C14_PagesPartition ==
  [][ (/\ Unfiltered(last)
       /\ Unfiltered(last')
       /\ last'.input.limit = last.input.limit
       /\ last'.input.offset = last.input.offset + last.input.limit) =>
        LET n == Cardinality(images)
        IN  /\ Len(last.result) = PageSize(n, last.input.limit, last.input.offset)
            /\ Len(last'.result) = PageSize(n, last'.input.limit, last'.input.offset)
            /\ ResultIds(last.result) \cap ResultIds(last'.result) = {}
            /\ (last.input.offset = 0 /\ n <= 2 * last.input.limit) =>
                 ResultIds(last.result) \cup ResultIds(last'.result) = ImageIds(images) ]_vars

(* C15: getImageById naming an id that no image has returns null, without  *)
(* an error, and changes nothing; processImage, downloadImage by image_id  *)
(* and deleteImage naming such an id fail with not found.                  *)
C15_GetByIdNull ==
  [][ /\ (last'.op = "getImageById" /\ last'.id \notin ImageIds(images)) =>
           /\ last'.err = ""
           /\ last'.result = <<>>
           /\ UNCHANGED <<images, processed, imageSeq, processedSeq, files>>
      /\ (/\ last'.op \in {"processImage", "deleteImage", "downloadImage"}
          /\ last'.op = "downloadImage" => Has(last'.input, "image_id")
          /\ last'.id \notin ImageIds(images)) =>
           last'.err = "not found" ]_vars

\* null for the id of a deleted image while another image exists
C15_Witness ==
  /\ Returned("getImageById")
  /\ last.result = <<>>
  /\ last.id <= imageSeq
  /\ images # {}

(* C16: getImageById naming an existing image returns that image, not      *)
(* null, with processed_images holding every processed row the image owns, *)
(* of every status, each once; the list is empty when it owns none.        *)
C16_GetByIdComplete ==
  (Returned("getImageById") /\ last.id \in ImageIds(images)) =>
    /\ Len(last.result) = 1
    /\ \E i \in images :
         /\ i.id = last.id
         /\ last.result[1] = withProcessed(i, last.result[1].processed_images)
    /\ LET ps == last.result[1].processed_images
       IN  /\ { ps[j] : j \in 1..Len(ps) } = RowsOf(last.id, processed)
           /\ Len(ps) = Cardinality(RowsOf(last.id, processed))

\* an image returned with a pending row and a completed row
C16_Witness ==
  /\ Returned("getImageById")
  /\ Len(last.result) = 1
  /\ LET ps == last.result[1].processed_images
     IN  \E a, b \in 1..Len(ps) :
           /\ ps[a].processing_status = "pending"
           /\ ps[b].processing_status = "completed"

\* the number of trailing '=' of a text
Pads(s) ==
  IF Len(s) >= 2 /\ s[Len(s)] = 64 /\ s[Len(s) - 1] = 64 THEN 2
  ELSE IF Len(s) >= 1 /\ s[Len(s)] = 64 THEN 1
  ELSE 0

\* the text is the base64 encoding of some bytes: whole groups of four
\* characters of the alphabet, '=' only as the last one or two characters,
\* and no spare bit set in the last digit
Decodable(s) ==
  /\ Len(s) % 4 = 0
  /\ \A k \in 1..Len(s) : s[k] <= 64
  /\ \A k \in 1..(Len(s) - Pads(s)) : s[k] < 64
  /\ Pads(s) = 2 => s[Len(s) - 2] % 16 = 0
  /\ Pads(s) = 1 => s[Len(s) - 1] % 4 = 0

\* the number of bytes such a text encodes
DecodedLength(s) == 3 * (Len(s) \div 4) - Pads(s)

(* C17: uploadImage of a decodable payload stores an image whose file_size *)
(* is the decoded byte length and a blob that encodes back to the payload; *)
(* no later step changes the blob of an image that still exists; and       *)
(* downloadImage by image id returns the image's filename, MIME type and   *)
(* file_size with the encoding of its blob, so that a download right after *)
(* the upload returns the uploaded payload, filename and MIME type.        *)
C17_RoundTrip ==
  [][ /\ (Returns("uploadImage") /\ Decodable(last'.input.file_data)) =>
           LET row == last'.result[1]
           IN  /\ row \in images'
               /\ row.file_size = DecodedLength(last'.input.file_data)
               /\ readFile(files', row.original_path) # {}
               /\ \A b \in readFile(files', row.original_path) :
                    BufferToBase64(b) = last'.input.file_data
      /\ \A i \in images \cap images' :
           readFile(files', i.original_path) = readFile(files, i.original_path)
      /\ (Returns("downloadImage") /\ Has(last'.input, "image_id")) =>
           \E i \in images :
             /\ i.id = last'.input.image_id
             /\ last'.result[1].filename = i.filename
             /\ last'.result[1].mime_type = i.mime_type
             /\ last'.result[1].file_size = i.file_size
             /\ \A b \in readFile(files, i.original_path) :
                  last'.result[1].file_data = BufferToBase64(b)
      /\ (/\ Returned("uploadImage")
          /\ Decodable(last.input.file_data)
          /\ last'.op = "downloadImage"
          /\ Has(last'.input, "image_id")
          /\ last'.input.image_id = last.result[1].id) =>
           /\ last'.err = ""
           /\ last'.result[1].file_data = last.input.file_data
           /\ last'.result[1].file_size = DecodedLength(last.input.file_data)
           /\ last'.result[1].filename = last.input.filename
           /\ last'.result[1].mime_type = last.input.mime_type ]_vars

\* the padded one-byte payload of the second upload, downloaded
C17_Witness ==
  /\ Returned("downloadImage")
  /\ Has(last.input, "image_id")
  /\ last.input.image_id = 2
  /\ last.result[1].file_data = <<16, 16, 64, 64>>
  /\ last.result[1].file_size = 1
  /\ last.result[1].filename = <<"n">>

(* C18: after every step the images have pairwise distinct original_path   *)
(* values and the blob at each image's path exists with as many bytes as   *)
(* the row's file_size; an upload writes the decoded bytes of its payload  *)
(* at the new row's path and leaves the blob of every earlier image as it  *)
(* was, also when the display filename is one used before.                 *)
C18_DistinctPaths ==
  [][ /\ \A i, j \in images' : i.id # j.id => i.original_path # j.original_path
      /\ \A i \in images' :
           /\ Cardinality(readFile(files', i.original_path)) = 1
           /\ \A b \in readFile(files', i.original_path) : Len(b) = i.file_size
      /\ Returns("uploadImage") =>
           /\ readFile(files', last'.result[1].original_path)
                = { BufferFromBase64(last'.input.file_data) }
           /\ \A i \in images :
                readFile(files', i.original_path) = readFile(files, i.original_path) ]_vars

\* two images uploaded under one display filename with different payloads,
\* each blob holding its own bytes
C18_Witness ==
  \E i, j \in images :
    /\ i.id # j.id
    /\ i.filename = j.filename
    /\ i.original_path # j.original_path
    /\ readFile(files, i.original_path) = { <<65, 17, 0>> }
    /\ readFile(files, j.original_path) = { <<65>> }

(* C19: uploadImage called with file_data that holds a character outside   *)
(* the base64 alphabet fails with an error and creates neither a blob nor  *)
(* an image row.                                                           *)
C19_UndecodableRejected ==
  [][ (/\ last'.op = "uploadImage"
       /\ \E k \in 1..Len(last'.input.file_data) : last'.input.file_data[k] > 64) =>
        /\ last'.err # ""
        /\ images' = images
        /\ files' = files ]_vars

(* C20: downloadImage for a processed row returns the owner's MIME type    *)
(* and a filename made of the owner's display filename and the row's       *)
(* processing_type: when the filename has a '.' after its first character, *)
(* the text before the last '.', then '_' and the type, then the text from *)
(* the last '.' on; otherwise the filename followed by '_' and the type.   *)
C20_ProcessedFilename ==
  (/\ Returned("downloadImage")
   /\ Has(last.input, "processed_image_id")
   /\ ~Has(last.input, "image_id")) =>
    \E p \in processed :
      /\ p.id = last.input.processed_image_id
      /\ \E i \in images :
           /\ i.id = p.original_image_id
           /\ last.result[1].mime_type = i.mime_type
           /\ LET n == i.filename
                  r == last.result[1].filename
                  infix == <<"_", p.processing_type>>
              IN  IF \E d \in 2..Len(n) : n[d] = "."
                  THEN \E d \in 2..Len(n) :
                         /\ n[d] = "."
                         /\ \A e \in (d + 1)..Len(n) : n[e] # "."
                         /\ r = SubSeq(n, 1, d - 1) \o infix \o SubSeq(n, d, Len(n))
                  ELSE r = n \o infix

\* a.j processed by resize is downloaded as a_resize.j
C20_Witness ==
  /\ Returned("downloadImage")
  /\ Has(last.input, "processed_image_id")
  /\ ~Has(last.input, "image_id")
  /\ last.result[1].filename = <<"a", "_", "resize", ".", "j">>
  /\ last.result[1].mime_type = "image/jpeg"

(* C30: downloadImage given both ids answers as for image_id alone: the    *)
(* original image with its display filename and file_size when the image   *)
(* exists, the original's not-found error otherwise, whether or not a      *)
(* processed row has the processed id; given neither id it fails with a    *)
(* validation error and returns nothing.                                   *)
C30_BothOrNeither ==
  last.op = "downloadImage" =>
    /\ (Has(last.input, "image_id") /\ Has(last.input, "processed_image_id")) =>
         IF \E i \in images : i.id = last.input.image_id
         THEN /\ last.err = ""
              /\ \E i \in images :
                   /\ i.id = last.input.image_id
                   /\ last.result[1].filename = i.filename
                   /\ last.result[1].mime_type = i.mime_type
                   /\ last.result[1].file_size = i.file_size
         ELSE last.err = "not found" /\ last.result = <<>>
    /\ DOMAIN last.input = {} =>
         last.err = "validation" /\ last.result = <<>>

\* the original is served although no processed row has the processed id
C30_Witness ==
  /\ Returned("downloadImage")
  /\ Has(last.input, "image_id")
  /\ Has(last.input, "processed_image_id")
  /\ \A p \in processed : p.id # last.input.processed_image_id
  /\ last.result[1].filename = <<"n">>

(* C22: a download by processed id of a row whose owner exists succeeds    *)
(* exactly when a blob exists at the row's processed_path and fails with   *)
(* the file read's error otherwise; the row processImage inserted has the  *)
(* empty path, at which no blob exists, so its download fails until an     *)
(* update supplies the path of an existing blob.                           *)
C22_PlaceholderUnreadable ==
  (/\ last.op = "downloadImage"
   /\ Has(last.input, "processed_image_id")
   /\ ~Has(last.input, "image_id")) =>
    \A p \in processed :
      p.id = last.input.processed_image_id =>
        /\ readFile(files, ProcessedPath("")) = {}
        /\ IF readFile(files, ProcessedPath(p.processed_path)) = {}
           THEN last.err = "ENOENT" /\ last.result = <<>>
           ELSE last.err = "" /\ Len(last.result) = 1

\* the backend's blob is written, the row still has the placeholder path,
\* and the download of the row fails
C22_Witness ==
  /\ last.op = "downloadImage"
  /\ last.err = "ENOENT"
  /\ \E f \in files : f.path.uuid = 0
  /\ \E p \in processed :
       /\ p.id = last.input.processed_image_id
       /\ p.processed_path = ""
       /\ p.processing_status = "pending"

(* C29: an update to completed that names no processed_path is accepted;   *)
(* a completed row with the empty path and no file_size puts its owner in  *)
(* the gallery, and the download of that row fails at the file read.       *)
C29_CompletedWithoutResult ==
  /\ last.op = "updateProcessingStatus" =>
       /\ last.err # "" => \A p \in processed : p.id # last.id
       /\ (/\ last.err = ""
           /\ last.input.status = "completed"
           /\ ~Has(last.input, "processed_path")) =>
            \E p \in processed : p.id = last.id /\ p.processing_status = "completed"
  /\ last.op = "getGallery" =>
       \A p \in processed :
         (/\ p.processing_status = "completed"
          /\ p.processed_path = ""
          /\ p.file_size = Null) =>
           \E k \in 1..Len(last.result) : last.result[k].id = p.original_image_id
  /\ (last.op = "downloadImage" /\ ~Has(last.input, "image_id")) =>
       \A p \in processed :
         (/\ p.id = last.input.processed_image_id
          /\ p.processing_status = "completed"
          /\ p.processed_path = "") =>
           last.err = "ENOENT" /\ last.result = <<>>

\* a completed row without a result whose download has just failed
C29_Witness ==
  /\ last.op = "downloadImage"
  /\ last.err = "ENOENT"
  /\ \E p \in processed :
       /\ p.id = last.input.processed_image_id
       /\ p.processing_status = "completed"
       /\ p.processed_path = ""
       /\ p.file_size = Null
       /\ \E results \in JoinOrders(images, processed) :
            \E k \in 1..Len(galleryImages(results)) :
              galleryImages(results)[k].id = p.original_image_id

(* C23: a successful update whose input has the error_message key leaves   *)
(* the row with that value, null included; one whose input lacks the key   *)
(* leaves the row's error_message as it was.                               *)
C23_ErrorMessage ==
  [][Returns("updateProcessingStatus") =>
       \A q \in processed' :
         q.id = last'.id =>
           \E p \in processed :
             /\ p.id = q.id
             /\ q.error_message = IF Has(last'.input, "error_message")
                                  THEN last'.input.error_message
                                  ELSE p.error_message]_vars

\* a message written by an earlier update has outlived an update without the key
C23_Witness ==
  /\ Returned("updateProcessingStatus")
  /\ ~Has(last.input, "error_message")
  /\ last.result[1].error_message = "X"
  /\ \E p \in processed : p.id = last.id /\ p.error_message = "X"

(* C24: in every state reached by processImage and updateProcessingStatus  *)
(* calls, a processed row with a non-null error_message has the status     *)
(* failed.                                                                 *)
C24_ErrorOnlyWhenFailed ==
  \A p \in processed :
    p.error_message # NullS => p.processing_status = "failed"

(* C25: every successful processImage, for an image and processing type    *)
(* that already have a row or not, adds exactly one row whose id no        *)
(* existing row has and leaves every existing processed row as it was.     *)
C25_IndependentRows ==
  [][Returns("processImage") =>
       /\ processed \subseteq processed'
       /\ Cardinality(processed') = Cardinality(processed) + 1
       /\ \A row \in processed' \ processed :
            /\ \A p \in processed : p.id # row.id
            /\ row = last'.result[1] ]_vars

\* two rows of the same image and the same processing type
C25_Witness ==
  /\ Returned("processImage")
  /\ \E p \in processed :
       /\ p.id # last.result[1].id
       /\ p.original_image_id = last.result[1].original_image_id
       /\ p.processing_type = last.result[1].processing_type
       /\ last.result[1] \in processed

(* C27: an updateProcessingStatus call leaves every image row and every    *)
(* other processed row as they were and keeps the id, original_image_id,   *)
(* processing_type and created_at of the row it names; a processed row     *)
(* disappears only in a deleteImage of its owner.                          *)
C27_UpdateFrame ==
  [][/\ last'.op = "updateProcessingStatus" =>
          /\ images' = images
          /\ { p \in processed' : p.id # last'.id } = { p \in processed : p.id # last'.id }
          /\ \A p \in processed : p.id = last'.id =>
               \E q \in processed' :
                 /\ q.id = p.id
                 /\ q.original_image_id = p.original_image_id
                 /\ q.processing_type = p.processing_type
                 /\ q.created_at = p.created_at
          /\ \A q \in processed' : \E p \in processed : p.id = q.id
     /\ \A p \in processed :
          (\A q \in processed' : q.id # p.id) =>
            /\ last'.op = "deleteImage"
            /\ last'.id = p.original_image_id ]_vars

\* a row updated at a later time than it and a second row were created
C27_Witness ==
  /\ Returned("updateProcessingStatus")
  /\ last.result[1].processing_status = "failed"
  /\ last.result[1].updated_at > last.result[1].created_at
  /\ last.result[1] \in processed
  /\ \E p \in processed : p.id # last.id

(* C28: an updateProcessingStatus naming an existing row succeeds whatever *)
(* the row's status and the input's status are, and leaves the row with    *)
(* the input's status; it fails only when no row has the id.               *)
C28_AnyTransition ==
  [][last'.op = "updateProcessingStatus" =>
       IF \E p \in processed : p.id = last'.id
       THEN /\ last'.err = ""
            /\ \A q \in processed' :
                 q.id = last'.id => q.processing_status = last'.input.status
       ELSE last'.err = "not found" /\ processed' = processed ]_vars

\* a row taken from completed back to pending
C28_Witness ==
  /\ Returned("updateProcessingStatus")
  /\ last.input.status = "pending"
  /\ last.result[1].processing_status = "pending"
  /\ last.result[1].processed_at # Null
  /\ last.result[1] \in processed

(* C21: downloadImage changes neither table nor any file, and fails in     *)
(* three ways told apart by their error: by image_id when no image has the *)
(* id; by processed_image_id when no processed row has the id; and, when   *)
(* the processed row was read but no image has its original_image_id, with *)
(* an error of its own.  In each of these it returns nothing.              *)
C21_NotFoundCases ==
  [][last'.op = "downloadImage" =>
       /\ UNCHANGED <<images, processed, imageSeq, processedSeq, files>>
       /\ last'.err # "" => last'.result = <<>>
       /\ IF Has(last'.input, "image_id")
          THEN /\ last'.err = "not found" <=>
                    \A i \in images : i.id # last'.input.image_id
               /\ dlPending' = dlPending
          ELSE CASE last'.err = "processed image not found" ->
                      /\ \A p \in processed : p.id # last'.input.processed_image_id
                      /\ dlPending' = dlPending
                 [] last'.err = "original image for processed image not found" ->
                      \E d \in dlPending \ dlPending' :
                        /\ d.input = last'.input
                        /\ \A i \in images : i.id # d.imageRecord.original_image_id
                 [] OTHER ->
                      /\ last'.err \in {"", "ENOENT"}
                      /\ \E d \in dlPending \ dlPending' :
                           /\ d.input = last'.input
                           /\ \E i \in images : i.id = d.imageRecord.original_image_id ]_vars

\* the owner was deleted between the download's two selects
C21_Witness ==
  /\ last.op = "downloadImage"
  /\ last.err = "original image for processed image not found"
  /\ last.result = <<>>
  /\ images = {}
  /\ dlPending = {}

\* a row without its updated_at and processed_at
NonTimestamp(row) ==
  [k \in DOMAIN row \ {"updated_at", "processed_at"} |-> row[k]]

\* the row after the update statements of inputs first and then second
Serial(row, first, second) ==
  applySet(applySet(row, updateValues(first, 0)), updateValues(second, 0))

(* C26: when two updateProcessingStatus calls on the same row, both begun  *)
(* before either's statement ran, have both run their statement, the row's *)
(* fields other than the timestamps are those of applying the two inputs   *)
(* one after the other in one of the two orders; with equal inputs they    *)
(* are those of applying the input once.                                   *)
C26_SerialOutcome ==
  \A d1, d2 \in updPending :
    (/\ d1.stage = "written" /\ d2.stage = "written"
     /\ d1.order < d2.order
     /\ d1.input.processed_image_id = d2.input.processed_image_id
     /\ d1.seen = d2.seen) =>
      \A row \in d1.seen :
        \E p \in processed :
          /\ p.id = row.id
          /\ \/ NonTimestamp(p) = NonTimestamp(Serial(row, d1.input, d2.input))
             \/ NonTimestamp(p) = NonTimestamp(Serial(row, d2.input, d1.input))
          /\ d1.input = d2.input =>
               NonTimestamp(p) = NonTimestamp(applySet(row, updateValues(d1.input, 0)))

\* one call wrote the result path, the other the error message and the
\* last status: the row has all three
C26_Witness ==
  \E d1, d2 \in updPending :
    /\ d1.stage = "written" /\ d2.stage = "written"
    /\ d1.order < d2.order
    /\ d1.seen = d2.seen /\ d1.seen # {}
    /\ Has(d1.input, "processed_path") /\ d1.input.status = "completed"
    /\ Has(d2.input, "error_message") /\ d2.input.status = "failed"
    /\ \E p \in processed :
         /\ p.id = d1.input.processed_image_id
         /\ p.processed_path = "/processed/a.png"
         /\ p.error_message = "X"
         /\ p.processing_status = "failed"
         /\ p.processed_at # Null

====
